---- MODULE Spec2Model ----
(***************************************************************************)
(* State-machine model of karitham/cls:                                    *)
(*   - BatchAddDocuments, concurrent variant   (src/chroma.go)             *)
(*   - BatchAddDocuments, sequential variant   (src/dirextractor/...go,    *)
(*     second half of the file) and its caller indexFile (src/main.go)     *)
(*   - collectFiles (src/main.go) and extractor.Files (dirextractor.go)    *)
(* Strings are sequences of one-character strings, so that prefix, suffix, *)
(* extension and letter-case operations are computed, not assumed.         *)
(***************************************************************************)
EXTENDS Integers, Sequences, FiniteSets, TLC

(* ---------------------------------------------------------------------- *)
(* Bounds of the model and constants of the program                        *)
(* ---------------------------------------------------------------------- *)

\* most chunks an item list of the model is cut into
MaxChunks == 3

\* concurrency limit of the runs in which the limit is reached (the
\* program's limit of 50 is reached only by lists of more than 5000 items)
SmallLimit == 2

\* batchSize := 100   (chroma.go:150, dirextractor.go:300)
batchSize == 100

\* group.SetLimit(50)
DefaultLimit == 50

Max(a, b) == IF a >= b THEN a ELSE b

Min(a, b) == IF a <= b THEN a ELSE b

CeilDiv(a, b) == (a + b - 1) \div b

(* ---------------------------------------------------------------------- *)
(* Ingestion: state                                                        *)
(* ---------------------------------------------------------------------- *)

VARIABLES
  variant,      \* which BatchAddDocuments is linked: "concurrent" | "sequential"
  caller,       \* "indexFile" (main.go) or "direct" (any other caller)
  pc,           \* position of the calling goroutine
  n,            \* len(paths) / len(ids)
  cp,           \* cap(paths)
  docsLen,      \* len(documents)   (sequential variant)
  metasLen,     \* len(metadatas)   (sequential variant)
  limit,        \* the errgroup's limit
  i,            \* loop variable of the dispatch loop
  cur,          \* the chunk sliced in the current iteration: <<lo, hi>>
  chunks,       \* dispatched chunks, in dispatch order
  gerr,         \* errgroup's err: 0 = nil, k = error of chunk k
  cancelled,    \* the context derived by errgroup.WithContext was cancelled
  completed,    \* chunk numbers in completion order
  addCalls,     \* calls of coll.Add, in call order: <<chunk, lo, hi>>
  retErr,       \* returned error: -1 not returned, 0 nil, k chunk k's, -2 length mismatch
  exitCode,     \* process exit status: -1 = still running
  printed,      \* line indexFile printed: "none" | "nofiles" | "indexed"
  indexedCount, \* the count in "Successfully indexed %d files", -1 = not printed
  unreadItems   \* the items whose file os.ReadFile cannot read

ingestVars == <<variant, caller, pc, n, cp, docsLen, metasLen, limit,
                i, cur, chunks, gerr, cancelled, completed, addCalls, retErr,
                exitCode, printed, indexedCount, unreadItems>>

\* the lengths of the item lists: empty, and around every multiple of
\* batchSize up to MaxChunks chunks
Lengths ==
  {0} \cup { c * batchSize + d : c \in 0..(MaxChunks - 1), d \in {1, 50, batchSize} }

\* the spare capacity (cap - len) of the list: none, what append() leaves
\* (a list of 250 strings has capacity 256), and a whole batch
Slacks == {0, 6, batchSize}

\* the limit of the group: the program's, and a small one that is reached
Limits == {SmallLimit, DefaultLimit}

\* the files of the list that cannot be read when a chunk reads them: none,
\* or the first one, of a list without spare capacity (the concurrent variant
\* reads the files itself)
UnreadSets(v, len, c) ==
  IF v = "concurrent" /\ len > 0 /\ c = len THEN {{}, {1}} ELSE {{}}

\* lengths of the parallel lists a direct caller may hand to the sequential variant
OtherLens(len) == { l \in {len - 1, len, len + 1} : l >= 0 }

IngestInit ==
  /\ variant \in {"concurrent", "sequential"}
  /\ caller \in {"indexFile", "direct"}
  /\ n \in Lengths
  /\ cp \in (IF variant = "concurrent" THEN { n + sl : sl \in Slacks } ELSE {n})
  /\ limit \in (IF variant = "concurrent" THEN Limits ELSE {DefaultLimit})
  /\ docsLen \in (IF variant = "sequential" /\ caller = "direct" THEN OtherLens(n) ELSE {n})
  /\ metasLen \in (IF variant = "sequential" /\ caller = "direct" THEN OtherLens(n) ELSE {n})
  /\ unreadItems \in UnreadSets(variant, n, cp)
  /\ pc = IF caller = "indexFile" THEN "index" ELSE "batch"
  /\ i = 0
  /\ cur = <<0, 0>>
  /\ chunks = <<>>
  /\ gerr = 0
  /\ cancelled = FALSE
  /\ completed = <<>>
  /\ addCalls = <<>>
  /\ retErr = -1
  /\ exitCode = -1
  /\ printed = "none"
  /\ indexedCount = -1

(* ---------------------------------------------------------------------- *)
(* Ingestion: helpers                                                      *)
(* ---------------------------------------------------------------------- *)

\* the list handed in: item k is the k-th path; positions len+1..cap are the
\* slots of the backing array beyond the list's length
paths == [k \in 1..cp |-> k]

\* s[lo:hi] of Go
Slice(s, lo, hi) == [j \in 1..(hi - lo) |-> s[lo + j]]

\* the upper index of the chunk starting at index idx   (chroma.go:152)
SliceHigh(idx, b, len) == Max(idx + b, len)

\* the upper index of the chunk starting at index idx   (dirextractor.go:302-305)
SeqEnd(idx, b, len) == IF idx + b > len THEN len ELSE idx + b

Chunk(lo, hi, st, res) == [lo |-> lo, hi |-> hi, st |-> st, res |-> res]

ChunkItems(k) == Slice(paths, chunks[k].lo, chunks[k].hi)

\* the zero value of DocumentID: the empty string (items are 1, 2, ...)
EmptyID == 0

\* os.ReadFile(p) fails (chroma.go:161-164): on an unreadable file, and on a
\* slot beyond the list's length, which holds the zero value ""
ReadFileFails(p) == p \in unreadItems \/ p > n

\* a chunk that gives up at the first file it cannot read
DocIDsStopAtUnread(items) ==
  [j \in 1..Len(items) |->
     IF \E m \in 1..j : ReadFileFails(items[m]) THEN EmptyID ELSE items[j]]

\* chroma.go:155-169: the identifiers a chunk's goroutine builds: slot j is
\* the path itself, and is left at its zero value when the read failed
DocIDs(items) ==
  [j \in 1..Len(items) |-> IF ReadFileFails(items[j]) THEN EmptyID ELSE items[j]]

\* dirextractor.go:287-290, 306: the identifiers of a batch are the caller's
SeqIDs(lo, hi) == [j \in 1..(hi - lo) |-> lo + j]

\* the identifiers handed to coll.Add by a call for the items lo+1..hi
\* (chroma.go:171-174, dirextractor.go:306-310)
AddIDs(lo, hi) ==
  IF variant = "concurrent" THEN DocIDs(Slice(paths, lo, hi)) ELSE SeqIDs(lo, hi)

\* chunks that hold a slot of the limit: started and not yet finished
InFlight == { k \in 1..Len(chunks) : chunks[k].st # "finished" }

\* a group without a limit: Go never blocks
SemAcquireUnlimited == TRUE

\* g.sem <- token{} of errgroup.Go succeeds only below the limit
SemAcquire == Cardinality(InFlight) < limit

\* the context a chunk hands to coll.Add is the caller's ctx: the context
\* derived by errgroup.WithContext is discarded (group, _ :=), so that the
\* group's cancellation never reaches a chunk
ChunkCtxDone == FALSE

\* the results a call of coll.Add can have
AddResults == {"ok", "fail"} \cup (IF ChunkCtxDone THEN {"interrupted"} ELSE {})

\* a return that does not wait for the started goroutines
WaitDoneAtOnce == TRUE

\* group.Wait() returns when every started goroutine has called done()
WaitDone == \A k \in 1..Len(chunks) : chunks[k].st = "finished"

\* an error slot that every failing chunk overwrites
ErrLast(old, k) == k

\* g.errOnce.Do: only the first error is kept
ErrOnce(old, k) == IF old = 0 THEN k ELSE old

(* ---------------------------------------------------------------------- *)
(* BatchAddDocuments, concurrent variant (src/chroma.go:142-184)           *)
(* ---------------------------------------------------------------------- *)

\* an entry without the test for the empty list
BatchEnterNoEmptyCheck ==
  /\ pc = "batch"
  /\ variant = "concurrent"
  /\ pc' = "loop"
  /\ retErr' = retErr
  /\ i' = 0
  /\ UNCHANGED <<unreadItems, variant, caller, n, cp, docsLen, metasLen, limit, cur,
                 chunks, gerr, cancelled, completed, addCalls, exitCode, printed,
                 indexedCount>>

\* lines 143-150: the empty list returns at once; else the group is set up
BatchEnter ==
  /\ pc = "batch"
  /\ variant = "concurrent"
  /\ IF n = 0
       THEN /\ pc' = "returned"
            /\ retErr' = 0
            /\ i' = i
       ELSE /\ pc' = "loop"
            /\ retErr' = retErr
            /\ i' = 0
  /\ UNCHANGED <<unreadItems, variant, caller, n, cp, docsLen, metasLen, limit, cur,
                 chunks, gerr, cancelled, completed, addCalls, exitCode, printed,
                 indexedCount>>

\* lines 151-152: the loop test and the slice expression; slicing beyond the
\* capacity is a run-time panic, which ends the process (exit status 2)
SliceChunk ==
  /\ pc = "loop"
  /\ variant = "concurrent"
  /\ i < n
  /\ LET hi == SliceHigh(i, batchSize, n) IN
       IF hi > cp
         THEN /\ pc' = "panicked"
              /\ exitCode' = 2
              /\ cur' = cur
         ELSE /\ pc' = "go"
              /\ exitCode' = exitCode
              /\ cur' = <<i, hi>>
  /\ UNCHANGED <<unreadItems, variant, caller, n, cp, docsLen, metasLen, limit, i,
                 chunks, gerr, cancelled, completed, addCalls, retErr, printed,
                 indexedCount>>

\* line 154 and the loop increment: group.Go blocks until a slot is free,
\* then starts the chunk's goroutine
Go ==
  /\ pc = "go"
  /\ SemAcquire
  /\ chunks' = Append(chunks, Chunk(cur[1], cur[2], "running", "none"))
  /\ i' = i + batchSize
  /\ pc' = "loop"
  /\ UNCHANGED <<unreadItems, variant, caller, n, cp, docsLen, metasLen, limit, cur,
                 gerr, cancelled, completed, addCalls, retErr, exitCode, printed,
                 indexedCount>>

\* line 151: the loop ends
LoopExit ==
  /\ pc = "loop"
  /\ variant = "concurrent"
  /\ i >= n
  /\ pc' = "wait"
  /\ UNCHANGED <<unreadItems, variant, caller, n, cp, docsLen, metasLen, limit, i, cur,
                 chunks, gerr, cancelled, completed, addCalls, retErr, exitCode,
                 printed, indexedCount>>

\* lines 155-174: the goroutine of chunk k builds its slices and calls
\* coll.Add once
AddChunk(k) ==
  /\ pc # "panicked"
  /\ chunks[k].st = "running"
  /\ \E res \in AddResults :
       chunks' = [chunks EXCEPT ![k].st = "added", ![k].res = res]
  /\ addCalls' = Append(addCalls, <<k, chunks[k].lo, chunks[k].hi>>)
  /\ UNCHANGED <<unreadItems, variant, caller, pc, n, cp, docsLen, metasLen, limit, i,
                 cur, gerr, cancelled, completed, retErr, exitCode, printed,
                 indexedCount>>

\* lines 175-180 and the tail of errgroup's goroutine: the error, if any, is
\* recorded once (which cancels the derived context), the slot is released
CompleteChunk(k) ==
  /\ pc # "panicked"
  /\ chunks[k].st = "added"
  /\ chunks' = [chunks EXCEPT ![k].st = "finished"]
  /\ gerr' = IF chunks[k].res # "ok" THEN ErrOnce(gerr, k) ELSE gerr
  /\ cancelled' = (cancelled \/ chunks[k].res # "ok")
  /\ completed' = Append(completed, k)
  /\ UNCHANGED <<unreadItems, variant, caller, pc, n, cp, docsLen, metasLen, limit, i,
                 cur, addCalls, retErr, exitCode, printed, indexedCount>>

\* line 183: group.Wait()
Wait ==
  /\ pc = "wait"
  /\ WaitDone
  /\ pc' = "returned"
  /\ retErr' = gerr
  /\ cancelled' = TRUE
  /\ UNCHANGED <<unreadItems, variant, caller, n, cp, docsLen, metasLen, limit, i, cur,
                 chunks, gerr, completed, addCalls, exitCode, printed, indexedCount>>

(* ---------------------------------------------------------------------- *)
(* BatchAddDocuments, sequential variant (dirextractor.go:279-317)         *)
(* ---------------------------------------------------------------------- *)

\* an entry without the length check
SeqEnterNoLengthCheck ==
  /\ pc = "batch"
  /\ variant = "sequential"
  /\ IF n = 0
       THEN pc' = "returned" /\ retErr' = 0 /\ i' = i
       ELSE pc' = "seqloop" /\ retErr' = retErr /\ i' = 0
  /\ UNCHANGED <<unreadItems, variant, caller, n, cp, docsLen, metasLen, limit, cur,
                 chunks, gerr, cancelled, completed, addCalls, exitCode, printed,
                 indexedCount>>

\* lines 280-300: the length check, the empty list, the conversions
SeqEnter ==
  /\ pc = "batch"
  /\ variant = "sequential"
  /\ IF n # docsLen \/ n # metasLen
       THEN pc' = "returned" /\ retErr' = -2 /\ i' = i
       ELSE IF n = 0
         THEN pc' = "returned" /\ retErr' = 0 /\ i' = i
         ELSE pc' = "seqloop" /\ retErr' = retErr /\ i' = 0
  /\ UNCHANGED <<unreadItems, variant, caller, n, cp, docsLen, metasLen, limit, cur,
                 chunks, gerr, cancelled, completed, addCalls, exitCode, printed,
                 indexedCount>>

\* lines 301-314: one iteration: slice, one call of coll.Add, return on error
SeqStep ==
  /\ pc = "seqloop"
  /\ i < n
  /\ LET end == SeqEnd(i, batchSize, n)
         k == Len(chunks) + 1
     IN \E res \in {"ok", "fail"} :
          /\ chunks' = Append(chunks, Chunk(i, end, "finished", res))
          /\ addCalls' = Append(addCalls, <<k, i, end>>)
          /\ completed' = Append(completed, k)
          /\ IF res = "fail"
               THEN pc' = "returned" /\ retErr' = k /\ i' = i
               ELSE pc' = pc /\ retErr' = retErr /\ i' = i + batchSize
  /\ UNCHANGED <<unreadItems, variant, caller, n, cp, docsLen, metasLen, limit, cur,
                 gerr, cancelled, exitCode, printed, indexedCount>>

\* line 316: all batches were added
SeqDone ==
  /\ pc = "seqloop"
  /\ i >= n
  /\ pc' = "returned"
  /\ retErr' = 0
  /\ UNCHANGED <<unreadItems, variant, caller, n, cp, docsLen, metasLen, limit, i, cur,
                 chunks, gerr, cancelled, completed, addCalls, exitCode, printed,
                 indexedCount>>

(* ---------------------------------------------------------------------- *)
(* indexFile (src/main.go:183-232), from the collected file list on        *)
(* ---------------------------------------------------------------------- *)

\* lines 205-225: nothing to index, or build the lists and call AddDocuments
IndexStart ==
  /\ pc = "index"
  /\ IF n = 0
       THEN pc' = "exited" /\ printed' = "nofiles" /\ exitCode' = 0
       ELSE pc' = "batch" /\ printed' = printed /\ exitCode' = exitCode
  /\ UNCHANGED <<unreadItems, variant, caller, n, cp, docsLen, metasLen, limit, i, cur,
                 chunks, gerr, cancelled, completed, addCalls, retErr, indexedCount>>

\* an indexFile that prints the success line also after an error
IndexOutcomeAlwaysCount(err, files) ==
  IF err # 0 THEN <<"indexed", files, 1>> ELSE <<"indexed", files, 0>>

\* what indexFile prints and exits with for the error AddDocuments returned:
\* <<line, count, status>>
IndexOutcome(err, files) ==
  IF err # 0 THEN <<"none", -1, 1>> ELSE <<"indexed", files, 0>>

\* lines 226-231
IndexReport ==
  /\ pc = "returned"
  /\ caller = "indexFile"
  /\ LET out == IndexOutcome(retErr, n) IN
       /\ printed' = out[1]
       /\ indexedCount' = out[2]
       /\ exitCode' = out[3]
  /\ pc' = "exited"
  /\ UNCHANGED <<unreadItems, variant, caller, n, cp, docsLen, metasLen, limit, i, cur,
                 chunks, gerr, cancelled, completed, addCalls, retErr>>

IngestNext ==
  \/ BatchEnter
  \/ SliceChunk
  \/ Go
  \/ LoopExit
  \/ \E k \in 1..Len(chunks) : AddChunk(k)
  \/ \E k \in 1..Len(chunks) : CompleteChunk(k)
  \/ Wait
  \/ SeqEnter
  \/ SeqStep
  \/ SeqDone
  \/ IndexStart
  \/ IndexReport

(* ---------------------------------------------------------------------- *)
(* Strings: sequences of one-character strings                             *)
(* ---------------------------------------------------------------------- *)

\* the characters of the model in byte order (for sorting directory entries)
Alphabet == <<".", "/", "A", "T", "X", "_", "a", "b", "c", "d", "e", "g", "h", "i",
              "l", "m", "n", "o", "p", "s", "t", "u", "w", "x">>

Ord(c) == CHOOSE k \in 1..Len(Alphabet) : Alphabet[k] = c

UpperChars == <<"A", "B", "C", "D", "E", "F", "G", "H", "I", "J", "K", "L", "M",
                "N", "O", "P", "Q", "R", "S", "T", "U", "V", "W", "X", "Y", "Z">>

LowerChars == <<"a", "b", "c", "d", "e", "f", "g", "h", "i", "j", "k", "l", "m",
                "n", "o", "p", "q", "r", "s", "t", "u", "v", "w", "x", "y", "z">>

LowerChar(c) ==
  IF \E k \in 1..Len(UpperChars) : UpperChars[k] = c
    THEN LowerChars[CHOOSE k \in 1..Len(UpperChars) : UpperChars[k] = c]
    ELSE c

\* strings.ToLower
ToLower(s) == [k \in 1..Len(s) |-> LowerChar(s[k])]

\* strings.HasPrefix
HasPrefix(s, p) == Len(p) <= Len(s) /\ SubSeq(s, 1, Len(p)) = p

\* strings.HasSuffix
HasSuffix(s, p) == Len(p) <= Len(s) /\ SubSeq(s, Len(s) - Len(p) + 1, Len(s)) = p

\* strings.Contains
Contains(s, p) == \E k \in 0..(Len(s) - Len(p)) : SubSeq(s, k + 1, k + Len(p)) = p

\* strings.Split(s, c) for a one-character separator c
Split(s, c) ==
  LET pos == { k \in 1..Len(s) : s[k] = c }
      cnt == Cardinality(pos)
      at(j) == IF j = 0 THEN 0
               ELSE IF j = cnt + 1 THEN Len(s) + 1
               ELSE CHOOSE k \in pos : Cardinality({ m \in pos : m < k }) = j - 1
  IN [j \in 1..(cnt + 1) |-> SubSeq(s, at(j - 1) + 1, at(j) - 1)]

RECURSIVE JoinWith(_, _)
\* strings.Join(parts, sep)
JoinWith(parts, sep) ==
  IF parts = <<>> THEN <<>>
  ELSE IF Len(parts) = 1 THEN parts[1]
  ELSE parts[1] \o sep \o JoinWith(Tail(parts), sep)

\* strings.ReplaceAll(s, old, new) for one-character old and new
ReplaceAll(s, old, new) == [k \in 1..Len(s) |-> IF s[k] = old THEN new ELSE s[k]]

\* filepath.Ext: the suffix from the last dot of the last path element
Ext(path) ==
  LET dots == { k \in 1..Len(path) :
                  path[k] = "." /\ \A m \in k..Len(path) : path[m] # "/" }
  IN IF dots = {} THEN <<>>
     ELSE SubSeq(path, CHOOSE k \in dots : \A m \in dots : m <= k, Len(path))

\* byte-wise string order
StrLess(a, b) ==
  \/ Len(a) < Len(b) /\ SubSeq(b, 1, Len(a)) = a
  \/ \E k \in 1..Min(Len(a), Len(b)) :
       /\ SubSeq(a, 1, k - 1) = SubSeq(b, 1, k - 1)
       /\ Ord(a[k]) < Ord(b[k])

(* ---------------------------------------------------------------------- *)
(* The names of the directory trees                                        *)
(* ---------------------------------------------------------------------- *)

dotGit == <<".", "g", "i", "t">>

nodeModules == <<"n", "o", "d", "e", "_", "m", "o", "d", "u", "l", "e", "s">>

dotHid == <<".", "h">>

subName == <<"s", "u", "b">>

aTxt == <<"a", ".", "t", "x", "t">>

\* a file whose name is the path of sub/a.txt with "_" for "/"
subUnderATxt == <<"s", "u", "b", "_", "a", ".", "t", "x", "t">>

aTXT == <<"a", ".", "T", "X", "T">>

dotHTxt == <<".", "h", ".", "t", "x", "t">>

cBin == <<"c", ".", "b", "i", "n">>

extTxt == <<".", "t", "x", "t">>

extMd == <<".", "m", "d">>

(* ---------------------------------------------------------------------- *)
(* The file system and the inputs of the two walkers                       *)
(* ---------------------------------------------------------------------- *)

\* most files in one directory tree
MaxFiles == 2

\* the files a tree can have, as paths below the root
CandidateFiles ==
  { <<aTxt>>, <<aTXT>>, <<dotHTxt>>, <<cBin>>, <<subUnderATxt>>,
    <<subName, aTxt>>, <<dotGit, aTxt>>, <<nodeModules, aTxt>>,
    <<dotGit, subName, aTXT>>, <<dotGit, subName, aTxt>>,
    <<subName, dotHid, aTxt>> }

Trees == { t \in SUBSET CandidateFiles : Cardinality(t) <= MaxFiles }

\* the entries of a tree: the root, the files and every directory above a file
EntriesOf(t) == {<<>>} \cup UNION { { SubSeq(f, 1, k) : k \in 0..Len(f) } : f \in t }

\* the working directory of the process, as path components
Cwd == << <<"w">>, <<"p">> >>

\* the root as the caller names it
RootArgs == { <<"/", "w", "/", "p">>,
              <<".">>,
              <<"/", "w", "/", ".", "c">>,
              <<"/", ".", "c", "/", "p">> }

\* the option lists handed to dirextractor.New
Chains == { <<>>, <<"ext">>, <<"hidden">>, <<"hidden", "ext">>, <<"ext", "hidden">>,
            <<"regs", "hidden", "ext">>, <<"ext", "hidden", "regs">> }

\* the allow-list handed to WithExtensions
exts == { extTxt, extMd }

\* the patterns handed to WithIgnoreRegs; a pattern without metacharacters
\* matches the paths that contain it
regs == { nodeModules }

\* the pattern lists read from <root>/.gitignore
PatternLists == { <<>>,
                  << <<"s", "u", "b", "/">> >>,
                  << <<"*", ".", "b", "i", "n">> >>,
                  << <<"a", ".", "t", "x", "t">> >> }

\* main.go:17-45
validExtensions ==
  { <<".", "t", "x", "t">>,
    <<".", "m", "d">>,
    <<".", "g", "o">>,
    <<".", "p", "y">>,
    <<".", "j", "s">>,
    <<".", "t", "s">>,
    <<".", "j", "s", "o", "n">>,
    <<".", "y", "a", "m", "l">>,
    <<".", "y", "m", "l">>,
    <<".", "x", "m", "l">>,
    <<".", "h", "t", "m", "l">>,
    <<".", "c", "s", "s">>,
    <<".", "s", "h">>,
    <<".", "r", "s">>,
    <<".", "j", "a", "v", "a">>,
    <<".", "c">>,
    <<".", "c", "p", "p">>,
    <<".", "h">>,
    <<".", "h", "p", "p">>,
    <<".", "s", "q", "l">>,
    <<".", "d", "o", "c", "k", "e", "r", "f", "i", "l", "e">>,
    <<".", "g", "i", "t", "i", "g", "n", "o", "r", "e">>,
    <<".", "t", "o", "m", "l">>,
    <<".", "i", "n", "i">>,
    <<".", "c", "f", "g">>,
    <<".", "c", "o", "n", "f">>,
    <<".", "n", "i", "x">> }

VARIABLES
  walker,          \* "collectFiles" | "extractor"
  rootArg,         \* the root as given by the caller
  tree,            \* the files of the tree, as paths below the root
  unreadable,      \* entries (files or directories) that cannot be read
  fns,             \* the extractor's filter chain
  ignorePatterns,  \* collectFiles' patterns
  order,           \* the entries in the order the walk visits them
  pos,             \* the entry the walk is at
  wpc,             \* "idle" | "walking" | "done" | "error" | "nofiles" | "built"
  ids,             \* the identifiers indexFile builds for the collected files
  run,             \* which invocation of Files() is iterating: 1 or 2
  firstYielded,    \* the paths the first invocation of Files() yielded
  firstStopped,    \* whether the consumer of the first invocation stopped early
  stopped,         \* whether the consumer of the iteration in progress has stopped it
  files,           \* collectFiles' result list
  yielded,         \* the paths the extractor handed to its consumer
  visited,         \* the entries the callback was called on
  evals,           \* the filter evaluations (and collectFiles' extension tests), in order
  warned           \* paths of the "could not read file" warnings

walkVars == <<walker, rootArg, tree, unreadable, fns, ignorePatterns, order, pos, wpc,
              files, yielded, visited, evals, warned, ids, run, firstYielded,
              firstStopped, stopped>>

IsProperPrefix(p, q) == Len(p) < Len(q) /\ SubSeq(q, 1, Len(p)) = p

\* the order of a walk: a directory before its entries, the entries of one
\* directory sorted by name
PathLess(p, q) ==
  \/ IsProperPrefix(p, q)
  \/ \E k \in 1..Min(Len(p), Len(q)) :
       /\ SubSeq(p, 1, k - 1) = SubSeq(q, 1, k - 1)
       /\ StrLess(p[k], q[k])

WalkOrder(t) ==
  LET es == EntriesOf(t)
      rank(e) == Cardinality({ e2 \in es : PathLess(e2, e) }) + 1
  IN [k \in 1..Cardinality(es) |-> CHOOSE e \in es : rank(e) = k]

(* ---------------------------------------------------------------------- *)
(* Paths                                                                   *)
(* ---------------------------------------------------------------------- *)

Slash == <<"/">>

\* the non-empty elements of a path string
Elements(path) == SelectSeq(Split(path, "/"), LAMBDA c : c # <<>>)

\* filepath.Base of the root argument: what info.Name() is for the root
Base(arg) ==
  LET el == Elements(arg)
  IN IF el = <<>> THEN Slash ELSE el[Len(el)]

\* filepath.Join(root, rel...): the path the walk hands to its callback
WalkPath(arg, rel) ==
  IF rel = <<>> THEN arg
  ELSE IF arg = <<".">> THEN JoinWith(rel, Slash)
  ELSE arg \o Slash \o JoinWith(rel, Slash)

\* filepath.Abs
Abs(path) ==
  IF HasPrefix(path, Slash) THEN path
  ELSE IF path = <<".">> THEN Slash \o JoinWith(Cwd, Slash)
  ELSE Slash \o JoinWith(Cwd, Slash) \o Slash \o path

\* filepath.Rel(targetPath, path) for a path of the walk
Rel(rel) == IF rel = <<>> THEN <<".">> ELSE JoinWith(rel, Slash)

\* info.Name() / d.Name()
NameOf(arg, rel) == IF rel = <<>> THEN Base(arg) ELSE rel[Len(rel)]

IsDir(t, e) == e \notin t

\* the position of the walk after entry k when the directory d is left:
\* the first later entry that is not below d
AfterSubtree(ord, k, d) ==
  LET later == { m \in (k + 1)..Len(ord) : ~ IsProperPrefix(d, ord[m]) }
  IN IF later = {} THEN Len(ord) + 1 ELSE CHOOSE m \in later : \A m2 \in later : m <= m2

\* the directory that holds entry e
Parent(e) == SubSeq(e, 1, Len(e) - 1)

(* ---------------------------------------------------------------------- *)
(* collectFiles (src/main.go:14-135)                                       *)
(* ---------------------------------------------------------------------- *)

\* main.go:123-135
matchesPattern(path, pattern) ==
  IF HasSuffix(pattern, Slash)
    THEN LET pat == SubSeq(pattern, 1, Len(pattern) - 1)
         IN HasPrefix(path, pat \o Slash) \/ path = pat
    ELSE IF Contains(pattern, <<"*">>) /\ Len(Split(pattern, "*")) = 2
      THEN LET parts == Split(pattern, "*")
           IN HasPrefix(path, parts[1]) /\ HasSuffix(path, parts[2])
      ELSE path = pattern \/ HasPrefix(path, pattern \o Slash)

\* main.go:115-122
shouldIgnore(relPath, patterns) ==
  \E k \in 1..Len(patterns) : matchesPattern(relPath, patterns[k])

\* the callback of filepath.Walk (main.go:47-89) on entry e, by the line
\* that decides: "error" (48-50), "SkipDir" (55-57, 59-61, 65-67),
\* "ignored" (62), "passed" (68), "badext" (72), "unread" (78), "append" (81)
CollectCallback(arg, t, unread, patterns, e) ==
  LET name == NameOf(arg, e)
      dir == IsDir(t, e)
  IN IF dir /\ e \in unread THEN "error"
     ELSE IF dir /\ (name = nodeModules \/ name = dotGit) THEN "SkipDir"
     ELSE IF shouldIgnore(Rel(e), patterns) THEN (IF dir THEN "SkipDir" ELSE "ignored")
     ELSE IF dir \/ HasPrefix(name, <<".">>)
       THEN (IF dir /\ HasPrefix(name, <<".">>) THEN "SkipDir" ELSE "passed")
     ELSE IF ToLower(Ext(WalkPath(arg, e))) \notin validExtensions THEN "badext"
     ELSE IF e \in unread THEN "unread"
     ELSE "append"

\* main.go:81-86 (the content is not modelled; Size is the length of the name)
FileData(arg, e) ==
  [Path |-> WalkPath(arg, e), Name |-> NameOf(arg, e), Size |-> Len(NameOf(arg, e))]

\* one call of the callback, and filepath.Walk's reaction to what it returns
CollectVisit ==
  /\ walker = "collectFiles"
  /\ wpc = "walking"
  /\ pos <= Len(order)
  /\ LET e == order[pos]
         out == CollectCallback(rootArg, tree, unreadable, ignorePatterns, e)
     IN /\ visited' = visited \cup {e}
        /\ files' = IF out = "append" THEN Append(files, FileData(rootArg, e))
                    ELSE IF out = "error" THEN <<>>
                    ELSE files
        /\ warned' = IF out = "unread" THEN Append(warned, WalkPath(rootArg, e)) ELSE warned
        /\ evals' = IF out \in {"badext", "unread", "append"}
                      THEN Append(evals, [entry |-> e, fn |-> "ext",
                                          out |-> IF out = "badext" THEN "Skip" ELSE "nil"])
                      ELSE evals
        /\ wpc' = IF out = "error" THEN "error" ELSE wpc
        /\ pos' = IF out = "SkipDir" THEN AfterSubtree(order, pos, e) ELSE pos + 1
  /\ UNCHANGED <<stopped, ids, run, firstYielded, firstStopped, walker, rootArg, tree,
                 unreadable, fns, ignorePatterns, order, yielded>>

\* main.go:91-95: the walk is over, the list is returned
CollectReturn ==
  /\ walker = "collectFiles"
  /\ wpc = "walking"
  /\ pos > Len(order)
  /\ wpc' = "done"
  /\ UNCHANGED <<stopped, ids, run, firstYielded, firstStopped, walker, rootArg, tree,
                 unreadable, fns, ignorePatterns, order, pos, files, yielded, visited,
                 evals, warned>>

\* main.go:199-223: indexFile after collectFiles returned its list: nothing
\* to do for an empty list, otherwise one identifier per file, the file's
\* path with "_" for every "/"
IndexBuild ==
  /\ walker = "collectFiles"
  /\ wpc = "done"
  /\ IF files = <<>>
       THEN wpc' = "nofiles" /\ ids' = ids
       ELSE /\ wpc' = "built"
            /\ ids' = [k \in 1..Len(files) |-> ReplaceAll(files[k].Path, "/", "_")]
  /\ UNCHANGED <<stopped, run, firstYielded, firstStopped, walker, rootArg, tree, unreadable,
                 fns, ignorePatterns, order, pos, files, yielded, visited, evals,
                 warned>>

(* ---------------------------------------------------------------------- *)
(* dirextractor (src/dirextractor/dirextractor.go:14-138)                  *)
(* ---------------------------------------------------------------------- *)

\* WithExtensions' filter (lines 25-31)
extFilter(path) == IF Ext(path) \in exts THEN "nil" ELSE "Skip"

\* WithIgnoreHidden's filter (lines 39-53)
hiddenFilter(path) ==
  LET components == Split(path, "/")
      upto == Max(0, Len(components) - 2)
  IN IF \E k \in 1..upto : HasPrefix(components[k], <<".">>) THEN "SkipDir"
     ELSE IF HasPrefix(components[Len(components)], <<".">>) THEN "Skip"
     ELSE "nil"

\* WithIgnoreRegs' filter (lines 70-78)
regsFilter(path) == IF \E r \in regs : Contains(path, r) THEN "Skip" ELSE "nil"

RunFilter(f, path) ==
  IF f = "ext" THEN extFilter(path)
  ELSE IF f = "hidden" THEN hiddenFilter(path)
  ELSE regsFilter(path)

\* a filter loop that runs every filter of the chain
FiltersRunAll(chain, path) == Len(chain)

\* extractor.filter (lines 98-106): how many filters of the chain are run
\* on the path: up to and including the first that does not return nil
FiltersRun(chain, path) ==
  LET stops == { k \in 1..Len(chain) : RunFilter(chain[k], path) # "nil" }
  IN IF stops = {} THEN Len(chain) ELSE CHOOSE k \in stops : \A m \in stops : k <= m

\* extractor.filter: its result
filter(chain, path) ==
  LET r == FiltersRun(chain, path)
  IN IF r = 0 THEN "nil" ELSE RunFilter(chain[r], path)

\* the evaluations extractor.filter makes on a path, in order
FilterEvals(chain, e, path) ==
  [k \in 1..FiltersRun(chain, path) |->
     [entry |-> e, fn |-> chain[k], out |-> RunFilter(chain[k], path)]]

\* the callback of filepath.WalkDir (lines 110-132) on a directory: it
\* returns nil, also when it is called again with the error of ReadDir, so
\* that an unreadable directory is passed over without its entries
ExtractDir ==
  /\ walker = "extractor"
  /\ wpc = "walking"
  /\ pos <= Len(order)
  /\ IsDir(tree, order[pos])
  /\ visited' = visited \cup {order[pos]}
  /\ pos' = IF order[pos] \in unreadable
              THEN AfterSubtree(order, pos, order[pos])
              ELSE pos + 1
  /\ UNCHANGED <<stopped, ids, run, firstYielded, firstStopped, walker, rootArg, tree,
                 unreadable, fns, ignorePatterns, order, wpc, files, yielded, evals,
                 warned>>

\* a callback that goes on after the consumer has stopped
YieldReturnIgnored(more) == "nil"

\* lines 127-131: what the callback returns after yield returned more;
\* filepath.WalkDir ends the walk on SkipAll and returns nil
YieldReturn(more) == IF more THEN "nil" ELSE "SkipAll"

\* the callback on a file: the filters, then the yield; the consumer either
\* goes on (more = TRUE) or stops iterating
ExtractFile ==
  /\ walker = "extractor"
  /\ wpc = "walking"
  /\ pos <= Len(order)
  /\ ~ IsDir(tree, order[pos])
  /\ LET e == order[pos]
         abs == Abs(WalkPath(rootArg, e))
         out == filter(fns, abs)
     IN /\ visited' = visited \cup {e}
        /\ evals' = evals \o FilterEvals(fns, e, abs)
        /\ IF out = "Skip"
             THEN /\ pos' = pos + 1
                  /\ UNCHANGED <<yielded, wpc, stopped>>
           ELSE IF out = "SkipDir"
             THEN /\ pos' = AfterSubtree(order, pos, Parent(e))
                  /\ UNCHANGED <<yielded, wpc, stopped>>
           ELSE /\ yielded' = Append(yielded, abs)
                /\ \E more \in BOOLEAN :
                     /\ stopped' = ~ more
                     /\ IF YieldReturn(more) = "SkipAll"
                          THEN pos' = pos /\ wpc' = "done"
                          ELSE pos' = pos + 1 /\ wpc' = wpc
  /\ UNCHANGED <<ids, run, firstYielded, firstStopped, walker, rootArg, tree,
                 unreadable, fns, ignorePatterns, order, files, warned>>

\* WalkDir returns nil: the iterator returns
ExtractReturn ==
  /\ walker = "extractor"
  /\ wpc = "walking"
  /\ pos > Len(order)
  /\ wpc' = "done"
  /\ UNCHANGED <<stopped, ids, run, firstYielded, firstStopped, walker, rootArg, tree,
                 unreadable, fns, ignorePatterns, order, pos, files, yielded, visited,
                 evals, warned>>

\* a walk that goes on where the iteration before it ended
WalkStartResumed(prev) == prev

\* line 110: every call of the iterator calls filepath.WalkDir on e.root,
\* whatever position prev an earlier iteration ended at
WalkStart(prev) == 1

\* lines 108-110: the sequence of Files() is iterated a second time, after
\* the first iteration has ended (by itself or by its consumer); the
\* extractor holds root and fns only, the walk's state is the new call's
ExtractAgain ==
  /\ walker = "extractor"
  /\ wpc = "done"
  /\ run = 1
  /\ run' = 2
  /\ firstYielded' = yielded
  /\ firstStopped' = (pos <= Len(order))
  /\ pos' = WalkStart(pos)
  /\ wpc' = "walking"
  /\ yielded' = <<>>
  /\ visited' = {}
  /\ evals' = <<>>
  /\ stopped' = FALSE
  /\ UNCHANGED <<ids, walker, rootArg, tree, unreadable, fns, ignorePatterns, order,
                 files, warned>>

(* ---------------------------------------------------------------------- *)
(* The query and delete commands (src/main.go:234-310, chroma.go:106-141)  *)
(* ---------------------------------------------------------------------- *)

\* the most documents of the collection that match a query
MaxMatches == 6

\* n of coll.Query(ctx, query, 5)   (main.go:252, 265)
NResults == 5

Digits == <<"1", "2", "3", "4", "5", "6", "7", "8", "9">>

\* the k-th best match of the store: a text document
DocOf(k) == [Content |-> <<"d", Digits[k]>>]

\* the metadata entries the k-th match can have: both attributes, one of
\* them (chroma.go:166 stores only "path"), or none
MetadataOf(k) ==
  LET fname == <<"filename", <<"f", Digits[k]>> >>
      fpath == <<"path", <<"/", "f", Digits[k]>> >>
  IN { {fname, fpath}, {fname}, {fpath}, {} }

RECURSIVE MetadataLists(_)
\* the lists of metadata entries of the first m matches
MetadataLists(m) ==
  IF m = 0 THEN {<<>>}
  ELSE { Append(g, e) : g \in MetadataLists(m - 1), e \in MetadataOf(m) }

\* the metadata groups that go with a group of len documents: no group, or
\* one with an entry for the first m documents
MetadataGroups(len) ==
  {<<>>} \cup UNION { { <<g>> : g \in MetadataLists(m) } : m \in 0..len }

\* what the store answers to a query for n results when matching documents
\* of the collection match: their best n, in rank order, as one group
StoreAnswers(matching, nres) ==
  LET len == Min(matching, nres)
  IN { [documents |-> <<[k \in 1..len |-> DocOf(k)]>>, metadatas |-> mg] :
         mg \in MetadataGroups(len) }
     \cup (IF matching = 0 THEN {[documents |-> <<>>, metadatas |-> <<>>]} ELSE {})

VARIABLES
  cmd,          \* the command: "query" | "delete"
  collExists,   \* whether the collection exists in the store
  existed,      \* whether it existed when the command started
  matching,     \* how many documents of the collection match the query
  answer,       \* what the store answers to the query
  spc,          \* position of the command
  results,      \* the list Query returned
  outResults,   \* the results queryDB printed, in print order
  deleteCalls,  \* calls of client.DeleteCollection
  scode,        \* exit status of the command, -1 while it runs
  serr          \* the error the command logged: "none" | "NotFound" | "query"

storeVars == <<cmd, collExists, existed, matching, answer, spc, results, outResults,
               deleteCalls, scode, serr>>

\* fmt.Sprintf("%v", doc)   (chroma.go:125)
Sprintv(doc) == doc.Content

\* metadata.GetString(key): the value and whether the attribute is there
GetString(metadata, key) ==
  IF \E a \in metadata : a[1] = key
    THEN <<(CHOOSE a \in metadata : a[1] = key)[2], TRUE>>
    ELSE <<<<>>, FALSE>>

\* a mapping that keeps only the documents that have a metadata entry
QueryMapOnlyWithMetadata(documents, metadatas) ==
  IF Len(documents) = 0 \/ Len(documents[1]) = 0 \/ Len(metadatas) = 0 THEN <<>>
  ELSE [k \in 1..Min(Len(documents[1]), Len(metadatas[1])) |->
          [Content |-> Sprintv(documents[1][k]),
           FileName |-> GetString(metadatas[1][k], "filename")[1],
           Path |-> GetString(metadatas[1][k], "path")[1]]]

\* chroma.go:116-140: the first group of documents as a list of QueryResult
QueryMap(documents, metadatas) ==
  IF Len(documents) = 0 \/ Len(documents[1]) = 0 THEN <<>>
  ELSE [k \in 1..Len(documents[1]) |->
          LET has == Len(metadatas) > 0 /\ k <= Len(metadatas[1])
          IN [Content |-> Sprintv(documents[1][k]),
              FileName |-> IF has /\ GetString(metadatas[1][k], "filename")[2]
                             THEN GetString(metadatas[1][k], "filename")[1] ELSE <<>>,
              Path |-> IF has /\ GetString(metadatas[1][k], "path")[2]
                         THEN GetString(metadatas[1][k], "path")[1] ELSE <<>>]]

Reverse(s) == [k \in 1..Len(s) |-> s[Len(s) + 1 - k]]

StoreIdle ==
  /\ cmd = "none"
  /\ collExists = FALSE
  /\ existed = FALSE
  /\ matching = 0
  /\ answer = [documents |-> <<>>, metadatas |-> <<>>]
  /\ spc = "idle"
  /\ results = <<>>
  /\ outResults = <<>>
  /\ deleteCalls = 0
  /\ scode = -1
  /\ serr = "none"

StoreInit ==
  /\ cmd \in {"query", "delete"}
  /\ collExists \in BOOLEAN
  /\ existed = collExists
  /\ matching \in (IF cmd = "query" /\ collExists THEN 0..MaxMatches ELSE {0})
  /\ answer \in StoreAnswers(matching, NResults)
  /\ spc = IF cmd = "query" THEN "get1" ELSE "delete1"
  /\ results = <<>>
  /\ outResults = <<>>
  /\ deleteCalls = 0
  /\ scode = -1
  /\ serr = "none"

\* main.go:245-249, 259-263: client.GetCollection fails for a collection
\* that does not exist; queryDB logs the error and exits with status 1
GetCollection ==
  /\ spc \in {"get1", "get2"}
  /\ IF collExists
       THEN /\ spc' = IF spc = "get1" THEN "query1" ELSE "query2"
            /\ UNCHANGED <<scode, serr>>
       ELSE spc' = "exited" /\ scode' = 1 /\ serr' = "NotFound"
  /\ UNCHANGED <<cmd, collExists, existed, matching, answer, results, outResults,
                 deleteCalls>>

\* main.go:251-256, 265-269 with chroma.go:106-141: coll.Query; an error of
\* the store is logged and ends the command with status 1
Query ==
  /\ spc \in {"query1", "query2"}
  /\ \E ok \in BOOLEAN :
       IF ok
         THEN /\ results' = QueryMap(answer.documents, answer.metadatas)
              /\ spc' = IF spc = "query1" THEN "get2" ELSE "print"
              /\ UNCHANGED <<scode, serr>>
         ELSE /\ results' = <<>>
              /\ spc' = "exited"
              /\ scode' = 1
              /\ serr' = "query"
  /\ UNCHANGED <<cmd, collExists, existed, matching, answer, outResults, deleteCalls>>

\* main.go:271-283: "No results found", or the results from the last to
\* the first
PrintResults ==
  /\ spc = "print"
  /\ outResults' = Reverse(results)
  /\ spc' = "exited"
  /\ scode' = 0
  /\ UNCHANGED <<cmd, collExists, existed, matching, answer, results, deleteCalls,
                 serr>>

\* client.DeleteCollection of the store: an error for a collection that
\* does not exist, else the collection is gone.  deleteCollection calls it
\* at main.go:296 and again at main.go:303, and exits with status 1 on an
\* error of either call; after the second it prints the success line
DeleteCollection ==
  /\ spc \in {"delete1", "delete2"}
  /\ deleteCalls' = deleteCalls + 1
  /\ IF collExists
       THEN /\ collExists' = FALSE
            /\ IF spc = "delete1"
                 THEN spc' = "delete2" /\ scode' = scode
                 ELSE spc' = "exited" /\ scode' = 0
            /\ serr' = serr
       ELSE /\ collExists' = collExists
            /\ spc' = "exited"
            /\ scode' = 1
            /\ serr' = "NotFound"
  /\ UNCHANGED <<cmd, existed, matching, answer, results, outResults>>

StoreNext ==
  \/ GetCollection
  \/ Query
  \/ PrintResults
  \/ DeleteCollection

(* ---------------------------------------------------------------------- *)
(* The specifications                                                      *)
(* ---------------------------------------------------------------------- *)

\* the walkers' variables while the ingestion runs
WalkIdle ==
  /\ walker = "none"
  /\ rootArg = <<".">>
  /\ tree = {}
  /\ unreadable = {}
  /\ fns = <<>>
  /\ ignorePatterns = <<>>
  /\ order = <<>>
  /\ pos = 1
  /\ wpc = "idle"
  /\ files = <<>>
  /\ yielded = <<>>
  /\ visited = {}
  /\ evals = <<>>
  /\ warned = <<>>
  /\ ids = <<>>
  /\ run = 1
  /\ firstYielded = <<>>
  /\ firstStopped = FALSE
  /\ stopped = FALSE

\* the ingestion's variables while a walker runs
IngestIdle ==
  /\ variant = "none"
  /\ caller = "none"
  /\ pc = "idle"
  /\ n = 0
  /\ cp = 0
  /\ docsLen = 0
  /\ metasLen = 0
  /\ limit = DefaultLimit
  /\ i = 0
  /\ cur = <<0, 0>>
  /\ chunks = <<>>
  /\ gerr = 0
  /\ cancelled = FALSE
  /\ completed = <<>>
  /\ addCalls = <<>>
  /\ retErr = -1
  /\ exitCode = -1
  /\ printed = "none"
  /\ indexedCount = -1
  /\ unreadItems = {}

WalkInit ==
  /\ tree \in Trees
  /\ order = WalkOrder(tree)
  /\ walker \in {"collectFiles", "extractor"}
  /\ rootArg \in RootArgs
  /\ unreadable \in {{}} \cup { {e} : e \in EntriesOf(tree) }
  /\ fns \in (IF walker = "extractor" THEN Chains ELSE {<<>>})
  /\ ignorePatterns \in (IF walker = "collectFiles" THEN PatternLists ELSE {<<>>})
  /\ pos = 1
  /\ wpc = "walking"
  /\ files = <<>>
  /\ yielded = <<>>
  /\ visited = {}
  /\ evals = <<>>
  /\ warned = <<>>
  /\ ids = <<>>
  /\ run = 1
  /\ firstYielded = <<>>
  /\ firstStopped = FALSE
  /\ stopped = FALSE

WalkNext ==
  \/ CollectVisit
  \/ CollectReturn
  \/ IndexBuild
  \/ ExtractDir
  \/ ExtractFile
  \/ ExtractReturn
  \/ ExtractAgain

vars == <<ingestVars, walkVars, storeVars>>

Init == IngestInit /\ WalkIdle /\ StoreIdle

Next == IngestNext /\ UNCHANGED <<walkVars, storeVars>>

Spec == Init /\ [][Next]_vars

\* the steps of the goroutine that called BatchAddDocuments
MainStep ==
  \/ BatchEnter
  \/ SliceChunk
  \/ Go
  \/ LoopExit
  \/ Wait
  \/ SeqEnter
  \/ SeqStep
  \/ SeqDone
  \/ IndexStart
  \/ IndexReport

\* the steps of the chunks' goroutines: coll.Add returns, the goroutine ends
ChunkStep ==
  \/ \E k \in 1..Len(chunks) : AddChunk(k)
  \/ \E k \in 1..Len(chunks) : CompleteChunk(k)

\* the ingestion under a scheduler that runs every goroutine that can take a
\* step, and a store whose coll.Add always returns
SpecLive ==
  /\ Init
  /\ [][Next]_vars
  /\ WF_vars(MainStep /\ UNCHANGED <<walkVars, storeVars>>)
  /\ WF_vars(ChunkStep /\ UNCHANGED <<walkVars, storeVars>>)

InitWalk == WalkInit /\ IngestIdle /\ StoreIdle

NextWalk == WalkNext /\ UNCHANGED <<ingestVars, storeVars>>

SpecWalk == InitWalk /\ [][NextWalk]_vars

\* the runs that meet a file that cannot be read: the concurrent
\* BatchAddDocuments, which reads the files itself, and collectFiles
InitUnread ==
  \/ IngestInit /\ variant = "concurrent" /\ unreadItems # {} /\ WalkIdle /\ StoreIdle
  \/ /\ WalkInit
     /\ walker = "collectFiles"
     /\ \E f \in unreadable : ~ IsDir(tree, f)
     /\ IngestIdle
     /\ StoreIdle

NextUnread ==
  \/ /\ \/ BatchEnter
        \/ SliceChunk
        \/ Go
        \/ LoopExit
        \/ \E k \in 1..Len(chunks) : AddChunk(k)
        \/ \E k \in 1..Len(chunks) : CompleteChunk(k)
        \/ Wait
        \/ IndexStart
        \/ IndexReport
     /\ UNCHANGED <<walkVars, storeVars>>
  \/ /\ \/ CollectVisit
        \/ CollectReturn
        \/ IndexBuild
     /\ UNCHANGED <<ingestVars, storeVars>>

SpecUnread == InitUnread /\ [][NextUnread]_vars

InitStore == StoreInit /\ IngestIdle /\ WalkIdle

NextStore == StoreNext /\ UNCHANGED <<ingestVars, walkVars>>

SpecStore == InitStore /\ [][NextStore]_vars

(* ---------------------------------------------------------------------- *)
(* Ingestion: the properties                                               *)
(* ---------------------------------------------------------------------- *)

\* the list handed to BatchAddDocuments
Items == [k \in 1..n |-> k]

RECURSIVE ConcatChunks(_)
\* the items of the first k dispatched chunks, in dispatch order
ConcatChunks(k) == IF k = 0 THEN <<>> ELSE ConcatChunks(k - 1) \o ChunkItems(k)

ChunkSize(k) == chunks[k].hi - chunks[k].lo

Failed == { k \in 1..Len(chunks) : chunks[k].res = "fail" }

\* BatchAddDocuments is over: it returned (and indexFile may have exited) or
\* the process died in it
BatchOver == pc \in {"returned", "panicked"} \/ (pc = "exited" /\ retErr # -1)

BatchReturned == pc = "returned" \/ (pc = "exited" /\ retErr # -1)

\* the lists handed in have the same length
SameLengths == n = docsLen /\ n = metasLen

\* the dispatch loop ran over the whole list
DispatchOver ==
  \/ variant = "concurrent" /\ pc \in {"wait", "returned", "exited"} /\ n > 0
  \/ variant = "sequential" /\ BatchReturned /\ retErr = 0 /\ n > 0

\* C1: the dispatched chunks are consecutive and non-overlapping, each holds
\* at most batchSize items in their original order, and concatenated in
\* dispatch order they are the original list: at every moment a prefix of
\* it, and the whole list once the dispatch loop is over.
C1_ChunksPartitionItems ==
  /\ \A k \in 1..Len(chunks) : ChunkSize(k) <= batchSize
  /\ LET all == ConcatChunks(Len(chunks))
     IN /\ Len(all) <= n
        /\ all = SubSeq(Items, 1, Len(all))
        /\ DispatchOver => all = Items

\* C2: for a non-empty list the concurrent BatchAddDocuments ends by
\* returning, having dispatched exactly ceil(n/b) chunks that all finished,
\* without error when no add-operation failed; 250 items with b = 100 give
\* chunks of 100, 100 and 50 items.
C2_CeilChunksAllComplete ==
  (variant = "concurrent" /\ n > 0 /\ BatchOver) =>
     /\ BatchReturned
     /\ Len(chunks) = CeilDiv(n, batchSize)
     /\ \A k \in 1..Len(chunks) : chunks[k].st = "finished"
     /\ (Failed = {} => retErr = 0)
     /\ (n = 250) =>
          [k \in 1..Len(chunks) |-> ChunkSize(k)] = <<100, 100, 50>>

\* C3: at every moment at most `limit` chunks are started and not finished,
\* and a chunk is started only from a state with fewer than `limit` such
\* chunks (the dispatch waits otherwise).
C3_InFlightAtMostLimit ==
  /\ [](Cardinality(InFlight) <= limit)
  /\ [][Len(chunks') > Len(chunks) /\ variant = "concurrent"
          => Cardinality(InFlight) < limit]_vars

\* C3 witness: the dispatcher holds a sliced chunk and waits, because
\* `limit` chunks are in flight.
C3_DispatchBlocked ==
  /\ pc = "go"
  /\ Cardinality(InFlight) = limit
  /\ ~ SemAcquire

\* C4: when BatchAddDocuments has returned every chunk it dispatched has
\* finished, also after a failure, and no chunk was ever interrupted.
C4_ReturnsAfterAllChunks ==
  /\ BatchReturned => \A k \in 1..Len(chunks) : chunks[k].st = "finished"
  /\ \A k \in 1..Len(chunks) : chunks[k].res # "interrupted"

\* C4 witness: the call returned an error, and a chunk that finished after
\* the failing chunk ran to completion and succeeded.
C4_ChunkOutlivesFailure ==
  /\ variant = "concurrent"
  /\ BatchReturned
  /\ retErr > 0
  /\ \E a, b \in 1..Len(completed) :
       /\ a < b
       /\ completed[a] = retErr
       /\ chunks[completed[b]].res = "ok"

\* C5: when an ingestion run is over the add-operation has been called
\* exactly once for every chunk of the partition of the list, and for
\* nothing else, whether or not some call failed.
C5_OneAddPerPartitionChunk ==
  (BatchOver /\ SameLengths) =>
     /\ Len(addCalls) = CeilDiv(n, batchSize)
     /\ \A j \in 0..(CeilDiv(n, batchSize) - 1) :
          Cardinality({ c \in 1..Len(addCalls) :
                          /\ addCalls[c][2] = j * batchSize
                          /\ addCalls[c][3] = Min(j * batchSize + batchSize, n) }) = 1

\* the first chunk, in completion order, whose add-operation failed (0: none)
FirstFailedCompleted ==
  LET idx == { a \in 1..Len(completed) : chunks[completed[a]].res = "fail" }
  IN IF idx = {} THEN 0
     ELSE completed[CHOOSE a \in idx : \A a2 \in idx : a <= a2]

\* C6: the concurrent BatchAddDocuments returns an error exactly when some
\* chunk's add-operation failed, and the error is that of the chunk that
\* failed first in completion order.
C6_FirstErrorInCompletionOrder ==
  (variant = "concurrent" /\ BatchReturned) =>
     /\ (retErr # 0 <=> Failed # {})
     /\ retErr = FirstFailedCompleted

\* C6 witness: two chunks failed and the returned error is that of the one
\* dispatched later, which completed first.
C6_LaterChunkFailsFirst ==
  /\ variant = "concurrent"
  /\ BatchReturned
  /\ \E a, b \in Failed : a < b /\ retErr = b

\* exactly one chunk of the partition failed and all others succeeded
OneChunkFailed ==
  /\ Cardinality(Failed) = 1
  /\ Len(chunks) = CeilDiv(n, batchSize)
  /\ \A k \in 1..Len(chunks) : chunks[k].st = "finished" /\ chunks[k].res \in {"ok", "fail"}

Produced ==
  { e \in tree :
      \/ walker = "collectFiles"
           /\ \E k \in 1..Len(files) : files[k].Path = WalkPath(rootArg, e)
      \/ walker = "extractor"
           /\ \E k \in 1..Len(yielded) : yielded[k] = Abs(WalkPath(rootArg, e)) }

\* the directory names the walker is to prune: collectFiles prunes hidden
\* directories, node_modules and .git, the hidden-entry filter prunes
\* hidden directories
PrunedName(name) ==
  \/ HasPrefix(name, <<".">>)
  \/ walker = "collectFiles" /\ (name = nodeModules \/ name = dotGit)

\* entry e lies below a directory (itself below the root) that is pruned
UnderPruned(e) == \E k \in 1..(Len(e) - 1) : PrunedName(e[k])

\* C8: a file under a pruned directory (hidden, node_modules, .git) is never
\* produced and a pruned directory is never descended into: no entry below
\* it is visited. For the extractor this is about the chains that hold the
\* hidden-entry filter.
C8_NothingBelowPrunedDirectory ==
  (walker = "collectFiles" \/ (walker = "extractor" /\ \E k \in 1..Len(fns) : fns[k] = "hidden"))
    => \A e \in Produced \cup visited : ~ UnderPruned(e)

\* the entry the claim wants collectFiles to return file e for
Expected(e) ==
  LET name == e[Len(e)]
  IN /\ e \in tree
     /\ e \notin unreadable
     /\ ToLower(Ext(name)) \in validExtensions
     /\ ~ HasPrefix(name, <<".">>)
     /\ ~ shouldIgnore(Rel(e), ignorePatterns)
     /\ ~ UnderPruned(e)

\* C9: the list collectFiles returns holds exactly one entry, with non-empty
\* name and path and non-negative size, for every readable file with an
\* allowed extension and a name without leading dot that no .gitignore
\* pattern matches and that has no node_modules, .git or hidden directory
\* above it, and no other entry; an empty directory gives the empty list.
C9_CollectsExactlyTheEligibleFiles ==
  (walker = "collectFiles" /\ wpc = "done") =>
     /\ \A e \in tree :
          Cardinality({ k \in 1..Len(files) : files[k].Path = WalkPath(rootArg, e) })
            = IF Expected(e) THEN 1 ELSE 0
     /\ \A k \in 1..Len(files) :
          /\ files[k].Name # <<>>
          /\ files[k].Path # <<>>
          /\ files[k].Size >= 0
          /\ \E e \in tree : files[k].Path = WalkPath(rootArg, e)
     /\ (tree = {} => files = <<>>)

\* the name without its extension
Stem(name) == SubSeq(name, 1, Len(name) - Len(Ext(name)))

\* two entries of one directory whose names differ at most in the letter
\* case of the extension
SameButExtCase(e1, e2) ==
  /\ e1 # <<>> /\ e2 # <<>>
  /\ Parent(e1) = Parent(e2)
  /\ Stem(e1[Len(e1)]) = Stem(e2[Len(e2)])
  /\ ToLower(Ext(e1[Len(e1)])) = ToLower(Ext(e2[Len(e2)]))

\* C10: the extension filter gives the same outcome for two names that
\* differ only in the letter case of the extension.
C10_ExtensionCaseInsensitive ==
  \A a, b \in 1..Len(evals) :
    (evals[a].fn = "ext" /\ evals[b].fn = "ext"
       /\ SameButExtCase(evals[a].entry, evals[b].entry))
      => evals[a].out = evals[b].out

(* ---------------------------------------------------------------------- *)
(* Identifiers and unreadable files: the properties                        *)
(* ---------------------------------------------------------------------- *)

\* C11: within one run of indexFile the identifiers are unique: two files
\* with distinct paths are never given the same identifier
C11_IdentifiersUnique ==
  \A a, b \in 1..Len(ids) : files[a].Path # files[b].Path => ids[a] # ids[b]

\* C12: every document handed to coll.Add has a non-empty identifier, in
\* every chunk, also in a chunk with a file that could not be read
C12_EveryIdentifierNonEmpty ==
  \A c \in 1..Len(addCalls) :
    LET docIDs == AddIDs(addCalls[c][2], addCalls[c][3])
    IN \A j \in 1..Len(docIDs) : docIDs[j] # EmptyID

\* the position in the walk's order of the file that cannot be read
UnreadPos == { k \in 1..Len(order) : order[k] \in unreadable /\ ~ IsDir(tree, order[k]) }

\* collectFiles passes over an unreadable file: the walk is not aborted, the
\* file is warned about if it was to be read, it is not in the list, and the
\* entry after it is the next one visited
WalkPassesUnread ==
  walker = "collectFiles" =>
    \A k \in UnreadPos :
      /\ wpc # "error"
      /\ \A m \in 1..Len(files) : files[m].Path # WalkPath(rootArg, order[k])
      /\ \A m \in 1..Len(warned) : warned[m] = WalkPath(rootArg, order[k])
      /\ (order[k] \in visited /\ k < Len(order)) =>
           (pos > k /\ (pos = k + 1 \/ order[k + 1] \in visited))

\* a chunk with an unreadable file is still handed to coll.Add, in one
\* call, with every readable file of the chunk at its position (the
\* identifiers are looked at in the latest call, which every call once is)
ChunkPassesUnread ==
  variant = "concurrent" =>
    /\ \A k \in 1..Len(chunks) :
         chunks[k].st # "running" =>
           Cardinality({ c \in 1..Len(addCalls) : addCalls[c][1] = k }) = 1
    /\ Len(addCalls) > 0 =>
         LET c == Len(addCalls)
             lo == addCalls[c][2]
             size == addCalls[c][3] - lo
             docIDs == AddIDs(lo, addCalls[c][3])
         IN /\ chunks[addCalls[c][1]].lo = lo
            /\ ChunkSize(addCalls[c][1]) = size
            /\ Len(docIDs) = size
            /\ \A j \in 1..size :
                 ((lo + j) \notin unreadItems /\ lo + j <= n) => docIDs[j] = lo + j

\* the run returns an error only if a call of coll.Add failed
NoErrorFromUnread ==
  (variant = "concurrent" /\ BatchReturned) =>
    /\ retErr # 0 => (retErr \in 1..Len(chunks) /\ chunks[retErr].res = "fail")
    /\ Failed = {} => retErr = 0

\* C13: one unreadable file never aborts processing: collectFiles skips it
\* and walks on; a chunk skips only that entry, the rest of the chunk is
\* submitted in one add call, and the run reports no error because of it
C13_UnreadableFileIsPassedOver ==
  WalkPassesUnread /\ ChunkPassesUnread /\ NoErrorFromUnread

\* a run with an unreadable first file returned without error after its
\* chunks were submitted, the file's slot empty and the next one filled
C13_RunWithUnreadableFileSucceeded ==
  /\ variant = "concurrent"
  /\ 1 \in unreadItems
  /\ pc = "returned"
  /\ retErr = 0
  /\ Len(addCalls) >= 1
  /\ AddIDs(addCalls[1][2], addCalls[1][3])[1] = EmptyID
  /\ AddIDs(addCalls[1][2], addCalls[1][3])[2] = 2

(* ---------------------------------------------------------------------- *)
(* Empty and mismatched lists: the properties                              *)
(* ---------------------------------------------------------------------- *)

\* C14: with zero items BatchAddDocuments returns success at once: it never
\* enters its loop, dispatches no chunk and never calls coll.Add
C14_EmptyListReturnsAtOnce ==
  (n = 0 /\ SameLengths) =>
    /\ pc \in {"index", "batch", "returned", "exited"}
    /\ chunks = <<>>
    /\ addCalls = <<>>
    /\ BatchReturned => retErr = 0

\* BatchAddDocuments was called with an empty list and has returned nil
C14_EmptyListReturned ==
  n = 0 /\ SameLengths /\ caller = "direct" /\ pc = "returned" /\ retErr = 0

\* C15: with lists of different lengths BatchAddDocuments returns the
\* configuration error and coll.Add is not called for any chunk
C15_MismatchedListsRejected ==
  ~ SameLengths =>
    /\ pc \in {"batch", "returned"}
    /\ chunks = <<>>
    /\ addCalls = <<>>
    /\ pc = "returned" => retErr = -2

\* a non-empty list with a shorter list of contents was rejected
C15_MismatchReturned ==
  n > 0 /\ docsLen < n /\ pc = "returned" /\ retErr = -2 /\ addCalls = <<>>

(* ---------------------------------------------------------------------- *)
(* Walk errors: the properties                                             *)
(* ---------------------------------------------------------------------- *)

\* C16: once the walk has met a directory it cannot read, it is over with
\* the error reported to the caller, and no entry after that directory is
\* visited or produced
C16_UnreadableDirectoryEndsWalk ==
  \A k \in 1..Len(order) :
    (order[k] \in unreadable /\ IsDir(tree, order[k]) /\ order[k] \in visited) =>
      /\ wpc = "error"
      /\ \A m \in (k + 1)..Len(order) : order[m] \notin visited /\ order[m] \notin Produced

(* ---------------------------------------------------------------------- *)
(* Query and delete: the properties                                        *)
(* ---------------------------------------------------------------------- *)

\* Query has returned its list without error
QueryReturned ==
  cmd = "query" /\ (spc \in {"get2", "query2", "print"} \/ (spc = "exited" /\ scode = 0))

\* the store's answer has the attribute for its k-th document
HasAttr(k, key) ==
  /\ Len(answer.metadatas) > 0
  /\ k <= Len(answer.metadatas[1])
  /\ \E a \in answer.metadatas[1][k] : a[1] = key

C18_DeleteOnceSucceedsIffExisted ==
  (cmd = "delete" /\ spc = "exited") =>
    /\ deleteCalls = 1
    /\ (scode = 0 /\ ~ collExists) <=> existed
    /\ ~ existed => (scode # 0 /\ serr = "NotFound")

(* ---------------------------------------------------------------------- *)
(* The extractor's iterator and filters: the properties                    *)
(* ---------------------------------------------------------------------- *)

\* the iteration in progress went through the whole tree
WalkComplete == wpc = "done" /\ pos > Len(order)

EvalsOf(e) == SelectSeq(evals, LAMBDA v : v.entry = e)

\* the files the extractor's callback has been called on
VisitedFiles == { e \in visited : ~ IsDir(tree, e) }

WasYielded(e) == \E k \in 1..Len(yielded) : yielded[k] = Abs(WalkPath(rootArg, e))

C21_StopEndsWalkAtOnce ==
  (walker = "extractor" /\ stopped) =>
    /\ wpc = "done"
    /\ pos <= Len(order)
    /\ yielded # <<>>
    /\ yielded[Len(yielded)] = Abs(WalkPath(rootArg, order[pos]))
    /\ \A m \in (pos + 1)..Len(order) :
         order[m] \notin visited /\ EvalsOf(order[m]) = <<>>

\* the consumer stopped on the first of two files that pass the filters
C21_StoppedBeforeAnotherFile ==
  /\ walker = "extractor"
  /\ stopped
  /\ run = 1
  /\ Len(yielded) = 1
  /\ \E m \in (pos + 1)..Len(order) :
       ~ IsDir(tree, order[m]) /\ filter(fns, Abs(WalkPath(rootArg, order[m]))) = "nil"

(* ---------------------------------------------------------------------- *)
(* Hidden entries and the root: the properties                             *)
(* ---------------------------------------------------------------------- *)

\* the walker prunes hidden entries
PrunesHidden ==
  walker = "collectFiles" \/ (walker = "extractor" /\ \E k \in 1..Len(fns) : fns[k] = "hidden")

\* the root is given as "." or its absolute path has a dot-prefixed component
DottedRoot ==
  \/ rootArg = <<".">>
  \/ LET el == Elements(Abs(rootArg))
     IN \E k \in 1..Len(el) : HasPrefix(el[k], <<".">>)

\* file e has no hidden name below the root and passes the other filters:
\* for collectFiles the extension list, the ignore patterns (on the file
\* and on the directories above it) and node_modules; for the extractor
\* the other filters of its chain
PassesButForRoot(e) ==
  /\ e \in tree
  /\ \A k \in 1..Len(e) : ~ HasPrefix(e[k], <<".">>)
  /\ walker = "collectFiles" =>
       /\ ToLower(Ext(e[Len(e)])) \in validExtensions
       /\ \A k \in 1..Len(e) : ~ shouldIgnore(Rel(SubSeq(e, 1, k)), ignorePatterns)
       /\ \A k \in 1..(Len(e) - 1) : e[k] # nodeModules
  /\ walker = "extractor" =>
       \A k \in 1..Len(fns) :
         fns[k] # "hidden" => RunFilter(fns[k], Abs(WalkPath(rootArg, e))) = "nil"

\* the walk went through the tree and returned
WalkReturned ==
  \/ walker = "collectFiles" /\ wpc = "done"
  \/ walker = "extractor" /\ WalkComplete

\* C22: hidden-entry pruning looks at names below the root only: under a
\* root given as "." or with a dot-prefixed component in its absolute
\* path, every file without a hidden name below the root that passes the
\* other filters is produced
C22_RootNameDoesNotPrune ==
  (PrunesHidden /\ DottedRoot /\ unreadable = {} /\ WalkReturned) =>
    \A e \in tree : PassesButForRoot(e) => e \in Produced

(* ---------------------------------------------------------------------- *)
(* Termination of the ingestion: the properties                            *)
(* ---------------------------------------------------------------------- *)

\* C23: when every call of coll.Add returns, BatchAddDocuments eventually
\* returns, for every input size, also with more chunks than the limit
C23_BatchEventuallyReturns == <>(pc \in {"returned", "exited"})

====
